---- MODULE Spec2Model ----
(***************************************************************************)
(* Buffer pool manager of BadgerDB (uw-cs564/buffer-manager).              *)
(* The model follows the final revision of buffer.cpp                      *)
(* (src/unnamed/part_000, lines 218-447): the clock-sweep allocator        *)
(* allocBuf and the public operations readPage, unPinPage, allocPage,      *)
(* flushFile and disposePage.  BufDesc, BufHashTbl, File and Page are      *)
(* declared in headers that are not part of the sources at hand; they are  *)
(* modelled from the specification (sections 3, 4.1, 4.2 and 6).           *)
(***************************************************************************)
EXTENDS Integers, Sequences, FiniteSets, TLC

\* ---------------------------------------------------------------- bounds
MaxBufs == 2        \* pool sizes 1..MaxBufs are constructed
MaxPage == 2        \* page numbers 1..MaxPage are used in file "F"
MaxOps == 5         \* public calls made on one manager

\* two page files; "G" is only ever asked for its page 1
Files == {"F", "G"}
PageIds(file) == IF file = "F" THEN 1..MaxPage ELSE 1..1
Keys == {k \in Files \X (1..MaxPage) : k[2] \in PageIds(k[1])}

VARIABLES
    numBufs,        \* N, fixed at construction
    bufDescTable,   \* frame descriptors, indexed 0..N-1
    hashTable,      \* Page Index: function from the present keys to frames
    bufPool,        \* per frame: <<file, pageNo>> of the page image it holds, <<>> if none
    clockHand,
    bufStats,       \* [accesses, diskreads, diskwrites]
    disk,           \* per file: the page numbers that exist in it
    last,           \* the last public operation and the exception it ended with
    calls,          \* number of public calls made so far
    allocCycle,     \* progress of an allocPage; unPinPage; disposePage sequence
    clockRun,       \* progress of the clock second-chance scenario
    coldHit         \* progress of the scenario readPage; unPinPage; readPage from Init

vars == <<numBufs, bufDescTable, hashTable, bufPool, clockHand, bufStats, disk,
          last, calls, coldHit, allocCycle, clockRun>>

Frames(n) == 0..(n - 1)

\* ------------------------------------------------ frame descriptor (4.1)
clear(d) ==
    [d EXCEPT !.valid = FALSE, !.file = "", !.pageNo = 0, !.pinCnt = 0,
              !.dirty = FALSE, !.refbit = FALSE]

Set(d, file, pageNo) ==
    [d EXCEPT !.valid = TRUE, !.file = file, !.pageNo = pageNo, !.pinCnt = 1,
              !.dirty = FALSE, !.refbit = FALSE]

\* ------------------------------------------------------ Page Index (4.2)
present(ht, file, pageNo) == <<file, pageNo>> \in DOMAIN ht

lookup(ht, file, pageNo) == ht[<<file, pageNo>>]

insert(ht, file, pageNo, frameNo) == (<<file, pageNo>> :> frameNo) @@ ht

remove(ht, file, pageNo) ==
    [k \in (DOMAIN ht) \ {<<file, pageNo>>} |-> ht[k]]

\* ------------------------------------------------------- Page File (6)
pageExists(dk, file, pageNo) == pageNo \in dk[file]

allocatePage(dk, file, pageNo) == [dk EXCEPT ![file] = @ \cup {pageNo}]

deletePage(dk, file, pageNo) == [dk EXCEPT ![file] = @ \ {pageNo}]

\* ------------------------------------------------------------ constructor
BufMgr(bufs) ==
    [n      |-> bufs,
     desc   |-> [i \in Frames(bufs) |->
                   [frameNo |-> i, valid |-> FALSE, file |-> "", pageNo |-> 0,
                    pinCnt |-> 0, dirty |-> FALSE, refbit |-> FALSE]],
     ht     |-> <<>>,
     pool   |-> [i \in Frames(bufs) |-> <<>>],
     hand   |-> bufs - 1,
     stats  |-> [accesses |-> 0, diskreads |-> 0, diskwrites |-> 0]]

\* The manager as one record, with the effects of the running operation:
\* err ("" while no exception is in flight), frame (out-parameter of allocBuf,
\* -1 while unset), page (frame whose buffer is returned, -1 if none),
\* wrote (the page images handed to File::writePage and the file each went to,
\* in order), deleted (keys handed to File::deletePage), count (the step
\* counter of allocBuf when the last sweep ended).
Running(m, dk) ==
    [n |-> m.n, desc |-> m.desc, ht |-> m.ht, pool |-> m.pool, hand |-> m.hand,
     stats |-> m.stats, disk |-> dk, err |-> "", frame |-> -1, page |-> -1,
     wrote |-> <<>>, deleted |-> <<>>, count |-> 0]

throw(m, e) == [m EXCEPT !.err = e]

\* File::writePage(bufPool[i]) on the file of descriptor i
writePage(m, i) ==
    LET file == m.desc[i].file
        image == m.pool[i]
    IN IF image # <<>> /\ pageExists(m.disk, file, image[2])
       THEN [m EXCEPT !.wrote = Append(@, [file |-> file, image |-> image])]
       ELSE throw(m, "InvalidPage")

\* ------------------------------------------------------- clock sweep (4.3)
\* a clock hand that does not move
advanceClock_stays(m) == m

advanceClock(m) == [m EXCEPT !.hand = (m.hand + 1) % m.n]

\* a single pass over the pool instead of two
sweepLimit_onePass(n) == n

\* three passes over the pool instead of two
sweepLimit_threePasses(n) == n * 3

sweepLimit(n) == n * 2

\* the eviction branch with the descriptor cleared before the index removal
evict_clearFirst(m) ==
    LET d == m.desc[m.hand]
    IN IF d.dirty
       THEN LET w == writePage(m, m.hand)
                s == [w EXCEPT !.desc[m.hand] = clear(@),
                               !.stats.accesses = @ + 1,
                               !.stats.diskwrites = @ + 1]
                c == s.desc[m.hand]
            IN IF w.err # "" THEN w
               ELSE IF ~present(s.ht, c.file, c.pageNo)
               THEN throw(s, "HashNotFound")
               ELSE [s EXCEPT !.ht = remove(@, c.file, c.pageNo),
                              !.frame = m.hand]
       ELSE [m EXCEPT !.frame = m.hand]

\* the branch "frame is open since refBit is 0"
evict(m) ==
    LET d == m.desc[m.hand]
    IN IF d.dirty
       THEN LET w == writePage(m, m.hand)
                s == [w EXCEPT !.stats.accesses = @ + 1,
                               !.stats.diskwrites = @ + 1]
            IN IF w.err # "" THEN w
               ELSE IF ~present(s.ht, d.file, d.pageNo)
               THEN throw(s, "HashNotFound")
               ELSE [s EXCEPT !.ht = remove(@, d.file, d.pageNo),
                              !.desc[m.hand] = clear(@),
                              !.frame = m.hand]
       ELSE [m EXCEPT !.frame = m.hand]

RECURSIVE sweep(_, _)
sweep(m, count) ==
    IF ~(count < sweepLimit(m.n))
    THEN throw([m EXCEPT !.count = count], "BufferExceeded")
    ELSE LET d == m.desc[m.hand]
         IN IF d.valid = FALSE
            THEN [m EXCEPT !.frame = m.hand, !.count = count]
            ELSE IF d.refbit
            THEN sweep(advanceClock([m EXCEPT !.desc[m.hand].refbit = FALSE]),
                       count + 1)
            ELSE IF d.pinCnt # 0
            THEN sweep(advanceClock(m), count + 1)
            ELSE evict([m EXCEPT !.count = count])

allocBuf(m) == sweep(m, 0)

\* --------------------------------------------------- public operations (4.4)
\* readPage with the disk read counted before a frame has been obtained
readPage_countsEarly(m, file, pageNo) ==
    IF present(m.ht, file, pageNo)
    THEN LET frameNo == lookup(m.ht, file, pageNo)
         IN [m EXCEPT !.desc[frameNo].refbit = TRUE,
                      !.desc[frameNo].pinCnt = @ + 1,
                      !.stats.accesses = @ + 1,
                      !.page = frameNo]
    ELSE LET a == allocBuf([m EXCEPT !.stats.diskreads = @ + 1])
             frameNo == a.frame
         IN IF a.err # "" THEN a
            ELSE IF ~pageExists(a.disk, file, pageNo)
            THEN throw(a, "InvalidPage")
            ELSE LET b == [a EXCEPT !.pool[frameNo] = <<file, pageNo>>]
                 IN IF present(b.ht, file, pageNo)
                    THEN throw(b, "HashAlreadyPresent")
                    ELSE [b EXCEPT !.ht = insert(@, file, pageNo, frameNo),
                                   !.desc[frameNo] = Set(@, file, pageNo),
                                   !.page = frameNo]

\* readPage whose hit path forgets to pin the frame
readPage_hitNoPin(m, file, pageNo) ==
    IF present(m.ht, file, pageNo)
    THEN LET frameNo == lookup(m.ht, file, pageNo)
         IN [m EXCEPT !.desc[frameNo].refbit = TRUE,
                      !.stats.accesses = @ + 1,
                      !.page = frameNo]
    ELSE LET a == allocBuf(m)
             frameNo == a.frame
         IN IF a.err # "" THEN a
            ELSE IF ~pageExists(a.disk, file, pageNo)
            THEN throw(a, "InvalidPage")
            ELSE LET b == [a EXCEPT !.stats.diskreads = @ + 1,
                                    !.pool[frameNo] = <<file, pageNo>>]
                 IN IF present(b.ht, file, pageNo)
                    THEN throw(b, "HashAlreadyPresent")
                    ELSE [b EXCEPT !.ht = insert(@, file, pageNo, frameNo),
                                   !.desc[frameNo] = Set(@, file, pageNo),
                                   !.page = frameNo]

readPage(m, file, pageNo) ==
    IF present(m.ht, file, pageNo)
    THEN LET frameNo == lookup(m.ht, file, pageNo)
         IN [m EXCEPT !.desc[frameNo].refbit = TRUE,
                      !.desc[frameNo].pinCnt = @ + 1,
                      !.stats.accesses = @ + 1,
                      !.page = frameNo]
    ELSE LET a == allocBuf(m)
             frameNo == a.frame
         IN IF a.err # "" THEN a
            ELSE IF ~pageExists(a.disk, file, pageNo)
            THEN throw(a, "InvalidPage")
            ELSE LET b == [a EXCEPT !.stats.diskreads = @ + 1,
                                    !.pool[frameNo] = <<file, pageNo>>]
                 IN IF present(b.ht, file, pageNo)
                    THEN throw(b, "HashAlreadyPresent")
                    ELSE [b EXCEPT !.ht = insert(@, file, pageNo, frameNo),
                                   !.desc[frameNo] = Set(@, file, pageNo),
                                   !.page = frameNo]

\* unPinPage that marks the frame dirty before it checks the pin count
unPinPage_dirtyFirst(m, file, pageNo, dirty) ==
    IF ~present(m.ht, file, pageNo)
    THEN m
    ELSE LET frameNo == lookup(m.ht, file, pageNo)
             t == [m EXCEPT !.desc[frameNo].dirty = (@ \/ dirty)]
         IN IF t.desc[frameNo].pinCnt = 0
            THEN throw(t, "PageNotPinned")
            ELSE [t EXCEPT !.desc[frameNo].pinCnt = @ - 1]

\* unPinPage that stores the dirty argument instead of or-ing it in
unPinPage_overwritesDirty(m, file, pageNo, dirty) ==
    IF ~present(m.ht, file, pageNo)
    THEN m
    ELSE LET frameNo == lookup(m.ht, file, pageNo)
         IN IF m.desc[frameNo].pinCnt = 0
            THEN throw(m, "PageNotPinned")
            ELSE [m EXCEPT !.desc[frameNo].pinCnt = @ - 1,
                           !.desc[frameNo].dirty = dirty]

unPinPage(m, file, pageNo, dirty) ==
    IF ~present(m.ht, file, pageNo)
    THEN m
    ELSE LET frameNo == lookup(m.ht, file, pageNo)
         IN IF m.desc[frameNo].pinCnt = 0
            THEN throw(m, "PageNotPinned")
            ELSE [m EXCEPT !.desc[frameNo].pinCnt = @ - 1,
                           !.desc[frameNo].dirty = (@ \/ dirty)]

\* allocPage that asks for a frame before it allocates the page in the file
allocPage_bufferFirst(m, file, pageNo) ==
    LET a == allocBuf(m)
        frameNew == a.frame
    IN IF a.err # "" THEN a
       ELSE IF present(a.ht, file, pageNo)
       THEN throw(a, "HashAlreadyPresent")
       ELSE [a EXCEPT !.disk = allocatePage(@, file, pageNo),
                      !.ht = insert(@, file, pageNo, frameNew),
                      !.desc[frameNew] = Set(@, file, pageNo),
                      !.pool[frameNew] = <<file, pageNo>>,
                      !.stats.accesses = @ + 1,
                      !.page = frameNew]

\* pageNo is the number File::allocatePage hands out
allocPage(m, file, pageNo) ==
    LET p == [m EXCEPT !.disk = allocatePage(@, file, pageNo)]
        a == allocBuf(p)
        frameNew == a.frame
    IN IF a.err # "" THEN a
       ELSE IF present(a.ht, file, pageNo)
       THEN throw(a, "HashAlreadyPresent")
       ELSE [a EXCEPT !.ht = insert(@, file, pageNo, frameNew),
                      !.desc[frameNew] = Set(@, file, pageNo),
                      !.pool[frameNew] = <<file, pageNo>>,
                      !.stats.accesses = @ + 1,
                      !.page = frameNew]

\* the loop body without the test that the frame belongs to the file
flushFrame_anyFile(m, file, i) ==
    LET d == m.desc[i]
    IN IF d.valid = FALSE THEN m
       ELSE IF d.pinCnt > 0 THEN throw(m, "PagePinned")
       ELSE IF d.dirty
       THEN LET w == writePage(m, i)
            IN IF w.err # "" THEN w
               ELSE IF ~present(w.ht, d.file, d.pageNo)
               THEN throw([w EXCEPT !.desc[i].dirty = FALSE], "HashNotFound")
               ELSE [w EXCEPT !.ht = remove(@, d.file, d.pageNo),
                              !.desc[i] = clear(@)]
       ELSE m

\* body of the for loop of flushFile for frame i
flushFrame(m, file, i) ==
    LET d == m.desc[i]
    IN IF d.file # file THEN m
       ELSE IF d.valid = FALSE THEN throw(m, "BadBuffer")
       ELSE IF d.pinCnt > 0 THEN throw(m, "PagePinned")
       ELSE IF d.dirty
       THEN LET w == writePage(m, i)
            IN IF w.err # "" THEN w
               ELSE IF ~present(w.ht, file, d.pageNo)
               THEN throw([w EXCEPT !.desc[i].dirty = FALSE], "HashNotFound")
               ELSE [w EXCEPT !.ht = remove(@, file, d.pageNo),
                              !.desc[i] = clear(@)]
       ELSE m

RECURSIVE flushFrom(_, _, _)
flushFrom(m, file, i) ==
    IF ~(i < m.n) THEN m
    ELSE LET r == flushFrame(m, file, i)
         IN IF r.err # "" THEN r ELSE flushFrom(r, file, i + 1)

flushFile(m, file) == flushFrom(m, file, 0)

\* disposePage that drops the index entry but leaves the descriptor as it is
disposePage_keepsFrame(m, file, pageNo) ==
    LET c == IF present(m.ht, file, pageNo)
             THEN [m EXCEPT !.ht = remove(@, file, pageNo)]
             ELSE m
        r == [c EXCEPT !.deleted = Append(@, <<file, pageNo>>)]
    IN IF pageExists(r.disk, file, pageNo)
       THEN [r EXCEPT !.disk = deletePage(@, file, pageNo)]
       ELSE throw(r, "InvalidPage")

disposePage(m, file, pageNo) ==
    LET c == IF present(m.ht, file, pageNo)
             THEN LET frameNew == lookup(m.ht, file, pageNo)
                  IN [m EXCEPT !.ht = remove(@, file, pageNo),
                               !.desc[frameNew] = clear(@)]
             ELSE m
        r == [c EXCEPT !.deleted = Append(@, <<file, pageNo>>)]
    IN IF pageExists(r.disk, file, pageNo)
       THEN [r EXCEPT !.disk = deletePage(@, file, pageNo)]
       ELSE throw(r, "InvalidPage")

\* ------------------------------------------------------------ state machine
current ==
    Running([n |-> numBufs, desc |-> bufDescTable, ht |-> hashTable,
             pool |-> bufPool, hand |-> clockHand, stats |-> bufStats], disk)

pins(desc) == [i \in DOMAIN desc |-> desc[i].pinCnt]

\* the scenario "readPage(F,p); unPinPage(F,p,false); readPage(F,p)" run
\* directly after construction; r is the finished operation
coldHitStep(c, r, op, file, pageNo, dirty) ==
    IF c.stage = "init" /\ op = "readPage" /\ r.err = ""
    THEN [stage |-> "read", file |-> file, pageNo |-> pageNo, first |-> r.page]
    ELSE IF c.stage = "read" /\ op = "unPinPage" /\ r.err = "" /\ ~dirty
            /\ file = c.file /\ pageNo = c.pageNo
    THEN [c EXCEPT !.stage = "unpinned"]
    ELSE IF c.stage = "unpinned" /\ op = "readPage" /\ r.err = ""
            /\ file = c.file /\ pageNo = c.pageNo
    THEN [c EXCEPT !.stage = IF r.page = c.first THEN "same" ELSE "moved"]
    ELSE [stage |-> "off", file |-> "", pageNo |-> 0, first |-> -1]

\* the sequence "allocPage(file) -> p; unPinPage(file,p,d); disposePage(file,p)"
\* started by any successful allocPage; r is the finished operation
allocCycleStep(c, r, op, file, pageNo) ==
    IF op = "allocPage" /\ r.err = ""
    THEN [stage |-> "alloc", file |-> file, pageNo |-> pageNo, frame |-> r.page]
    ELSE IF c.stage = "alloc" /\ op = "unPinPage" /\ r.err = ""
            /\ file = c.file /\ pageNo = c.pageNo
    THEN [c EXCEPT !.stage = "unpinned"]
    ELSE IF c.stage = "unpinned" /\ op = "disposePage" /\ r.err = ""
            /\ file = c.file /\ pageNo = c.pageNo
    THEN [c EXCEPT !.stage = "disposed"]
    ELSE [stage |-> "off", file |-> "", pageNo |-> 0, frame |-> -1]

\* the calls of the clock second-chance scenario, in order
clockScript ==
    << [op |-> "readPage", file |-> "F", pageNo |-> 1, dirty |-> FALSE],
       [op |-> "unPinPage", file |-> "F", pageNo |-> 1, dirty |-> FALSE],
       [op |-> "readPage", file |-> "F", pageNo |-> 2, dirty |-> FALSE],
       [op |-> "unPinPage", file |-> "F", pageNo |-> 2, dirty |-> FALSE],
       [op |-> "readPage", file |-> "F", pageNo |-> 1, dirty |-> FALSE],
       [op |-> "readPage", file |-> "F", pageNo |-> 3, dirty |-> FALSE] >>

\* number of calls of clockScript made so far, all of them without error and
\* with no other call since construction; -1 once the run has left the script
clockRunStep(c, r, op, file, pageNo, dirty) ==
    IF /\ c >= 0 /\ c < Len(clockScript) /\ r.err = ""
       /\ clockScript[c + 1] =
              [op |-> op, file |-> file, pageNo |-> pageNo, dirty |-> dirty]
    THEN c + 1
    ELSE -1

\* the operation ran to completion (normally or by an exception): its effects
\* become the state
Commit(r, op, file, pageNo, dirty) ==
    /\ calls < MaxOps
    /\ calls' = calls + 1
    /\ bufDescTable' = r.desc
    /\ hashTable' = r.ht
    /\ bufPool' = r.pool
    /\ clockHand' = r.hand
    /\ bufStats' = r.stats
    /\ disk' = r.disk
    /\ last' = [op |-> op, err |-> r.err]
    /\ coldHit' = coldHitStep(coldHit, r, op, file, pageNo, dirty)
    /\ allocCycle' = allocCycleStep(allocCycle, r, op, file, pageNo)
    /\ clockRun' = clockRunStep(clockRun, r, op, file, pageNo, dirty)
    /\ UNCHANGED numBufs

Init ==
    /\ numBufs \in 1..MaxBufs
    /\ bufDescTable = BufMgr(numBufs).desc
    /\ hashTable = BufMgr(numBufs).ht
    /\ bufPool = BufMgr(numBufs).pool
    /\ clockHand = BufMgr(numBufs).hand
    /\ bufStats = BufMgr(numBufs).stats
    /\ disk = [f \in Files |-> PageIds(f)]
    /\ last = [op |-> "BufMgr", err |-> ""]
    /\ calls = 0
    /\ coldHit = [stage |-> "init", file |-> "", pageNo |-> 0, first |-> -1]
    /\ allocCycle = [stage |-> "off", file |-> "", pageNo |-> 0, frame |-> -1]
    /\ clockRun = 0

ReadPage ==
    \E file \in Files : \E pageNo \in PageIds(file) :
        Commit(readPage(current, file, pageNo), "readPage", file, pageNo, FALSE)

UnPinPage ==
    \E file \in Files, dirty \in BOOLEAN : \E pageNo \in PageIds(file) :
        Commit(unPinPage(current, file, pageNo, dirty), "unPinPage", file, pageNo, dirty)

AllocPage ==
    \E file \in Files :
        \E pageNo \in PageIds(file) \ disk[file] :
            Commit(allocPage(current, file, pageNo), "allocPage", file, pageNo, FALSE)

FlushFile ==
    \E file \in Files :
        Commit(flushFile(current, file), "flushFile", file, 0, FALSE)

DisposePage ==
    \E file \in Files : \E pageNo \in PageIds(file) :
        Commit(disposePage(current, file, pageNo), "disposePage", file, pageNo, FALSE)

Next == ReadPage \/ UnPinPage \/ AllocPage \/ FlushFile \/ DisposePage

Spec == Init /\ [][Next]_vars

TypeOK ==
    /\ numBufs \in 1..MaxBufs
    /\ clockHand \in Frames(numBufs)
    /\ DOMAIN hashTable \subseteq Keys

\* ------------------------------------------------------------ vocabulary
key(d) == <<d.file, d.pageNo>>

allPinned(desc) == \A i \in DOMAIN desc : desc[i].valid /\ desc[i].pinCnt > 0

\* the manager states in which a public operation enabled now calls allocBuf:
\* a readPage miss, or allocPage after File::allocatePage
allocCalls ==
    {current : k \in {k \in Keys : ~present(hashTable, k[1], k[2])}} \cup
    {[current EXCEPT !.disk = allocatePage(@, k[1], k[2])] :
        k \in {k \in Keys : ~pageExists(disk, k[1], k[2])}}

cleared(d) == ~d.valid /\ d.pinCnt = 0 /\ ~d.dirty /\ ~d.refbit

mapped(ht, i) == \E k \in DOMAIN ht : ht[k] = i

\* ------------------------------------------------------------------ claims

\* C1: allocBuf never hands out a frame whose descriptor has pinCnt > 0 at
\* the moment it is chosen.
C1_NoPinnedVictim ==
    \A m \in allocCalls :
        allocBuf(m).frame # -1 => bufDescTable[allocBuf(m).frame].pinCnt = 0

\* C2: whenever allocBuf returns successfully the returned frame is fully
\* invalid (valid, pinCnt, dirty, refbit all cleared) and no Page Index entry
\* maps to it.
C2_ReturnedFrameCleared ==
    \A m \in allocCalls :
        LET a == allocBuf(m)
        IN a.err = "" => cleared(a.desc[a.frame]) /\ ~mapped(a.ht, a.frame)

\* C3: after every public operation the Page Index is a bijection with the
\* valid frames.
C3_IndexBijection ==
    /\ \A i \in Frames(numBufs) :
          bufDescTable[i].valid =>
              /\ present(hashTable, bufDescTable[i].file, bufDescTable[i].pageNo)
              /\ hashTable[key(bufDescTable[i])] = i
    /\ \A k \in DOMAIN hashTable :
          /\ bufDescTable[hashTable[k]].valid
          /\ key(bufDescTable[hashTable[k]]) = k

\* C4: after every public operation every invalid frame has pinCnt = 0,
\* dirty = false, refbit = false and no Page Index entry points to it.
C4_InvalidFramesClear ==
    \A i \in Frames(numBufs) :
        ~bufDescTable[i].valid =>
            cleared(bufDescTable[i]) /\ ~mapped(hashTable, i)

\* every public call that can be made now, with the state it ends in
opResults ==
    {[op |-> "readPage", file |-> k[1], pageNo |-> k[2], dirty |-> FALSE,
      r |-> readPage(current, k[1], k[2])] : k \in Keys} \cup
    {[op |-> "unPinPage", file |-> k[1], pageNo |-> k[2], dirty |-> b,
      r |-> unPinPage(current, k[1], k[2], b)] : k \in Keys, b \in BOOLEAN} \cup
    {[op |-> "allocPage", file |-> k[1], pageNo |-> k[2], dirty |-> FALSE,
      r |-> allocPage(current, k[1], k[2])] :
        k \in {k \in Keys : ~pageExists(disk, k[1], k[2])}} \cup
    {[op |-> "flushFile", file |-> f, pageNo |-> 0, dirty |-> FALSE,
      r |-> flushFile(current, f)] : f \in Files} \cup
    {[op |-> "disposePage", file |-> k[1], pageNo |-> k[2], dirty |-> FALSE,
      r |-> disposePage(current, k[1], k[2])] : k \in Keys}

holds(desc, pool, i, k) == desc[i].valid /\ key(desc[i]) = k /\ pool[i] = k

written(r, k) ==
    \E j \in 1..Len(r.wrote) : r.wrote[j] = [file |-> k[1], image |-> k]

\* C5: a resident dirty page loses its frame only after the page (the image
\* the frame held, not the newcomer's) has been written to its file; the sole
\* exception is disposePage of that same page.
C5_DirtyWrittenBeforeLoss ==
    \A x \in opResults : \A i \in Frames(numBufs) :
        LET d == bufDescTable[i]
        IN (d.valid /\ d.dirty /\ ~holds(x.r.desc, x.r.pool, i, key(d))) =>
              \/ x.op = "disposePage" /\ <<x.file, x.pageNo>> = key(d)
              \/ written(x.r, key(d))

\* C6: allocBuf raises BufferExceeded if and only if every frame is valid and
\* pinned when it is called; otherwise it succeeds.
C6_ExceededIffAllPinned ==
    \A m \in allocCalls :
        /\ allocBuf(m).err = "BufferExceeded" <=> allPinned(bufDescTable)
        /\ ~allPinned(bufDescTable) => allocBuf(m).err = ""

\* an operation has just failed with BufferExceeded on a pool of several
\* frames, all of them valid and pinned
C6_Witness ==
    /\ last.err = "BufferExceeded"
    /\ numBufs > 1
    /\ allPinned(bufDescTable)

\* C7 (as stated): a readPage that fails with BufferExceeded leaves every
\* descriptor, the Page Index, the clock hand and the statistics unchanged.
C7_FailedReadChangesNothing ==
    \A k \in Keys :
        LET r == readPage(current, k[1], k[2])
        IN r.err = "BufferExceeded" =>
            /\ r.desc = bufDescTable
            /\ r.ht = hashTable
            /\ r.hand = clockHand
            /\ r.stats = bufStats

\* C7 (amended): a readPage that fails with BufferExceeded leaves the Page
\* Index, the clock hand, the statistics and every descriptor field other than
\* refbit unchanged; every refbit is false afterwards.
C7_FailedReadClearsOnlyRefbits ==
    \A k \in Keys :
        LET r == readPage(current, k[1], k[2])
        IN r.err = "BufferExceeded" =>
            /\ r.desc = [i \in Frames(numBufs) |->
                           [bufDescTable[i] EXCEPT !.refbit = FALSE]]
            /\ r.ht = hashTable
            /\ r.hand = clockHand
            /\ r.stats = bufStats
            /\ r.pool = bufPool
            /\ r.disk = disk

\* a readPage has just failed with BufferExceeded; some frame had been hit
\* (pinned twice, which sets its refbit) and every refbit is now false
C7_Witness ==
    /\ last = [op |-> "readPage", err |-> "BufferExceeded"]
    /\ \E i \in Frames(numBufs) : bufDescTable[i].pinCnt > 1
    /\ \A i \in Frames(numBufs) : ~bufDescTable[i].refbit

\* C8: cold read then hit from the empty pool: one disk read, two accesses,
\* the same frame both times, final pinCnt = 1 and refbit = true.
C8_ColdReadThenHit ==
    coldHit.stage \in {"same", "moved"} =>
        /\ bufStats.diskreads = 1
        /\ bufStats.accesses = 2
        /\ coldHit.stage = "same"
        /\ bufDescTable[coldHit.first].pinCnt = 1
        /\ bufDescTable[coldHit.first].refbit

\* C9: unPinPage of an indexed page whose frame has pinCnt = 0 raises
\* PageNotPinned and changes nothing (no underflow, dirty not set).
C9_UnpinUnpinnedRaises ==
    \A k \in DOMAIN hashTable : \A dirty \in BOOLEAN :
        LET r == unPinPage(current, k[1], k[2], dirty)
        IN bufDescTable[lookup(hashTable, k[1], k[2])].pinCnt = 0 =>
            /\ r.err = "PageNotPinned"
            /\ r.desc = bufDescTable
            /\ r.ht = hashTable

\* an unPinPage has just been refused on a clean frame whose pin count is 0
C9_Witness ==
    /\ last = [op |-> "unPinPage", err |-> "PageNotPinned"]
    /\ \E k \in DOMAIN hashTable :
          /\ bufDescTable[hashTable[k]].pinCnt = 0
          /\ ~bufDescTable[hashTable[k]].dirty

\* pin count of page (file, pageNo) as the Page Index sees it: 0 if absent
pinOf(ht, desc, file, pageNo) ==
    IF present(ht, file, pageNo) THEN desc[lookup(ht, file, pageNo)].pinCnt ELSE 0

\* C10: a successful readPage(file, p) followed by unPinPage(file, p, false)
\* leaves the pin count of the frame holding p at its value before the read
\* (0 for a miss) and the pin count of every other frame unchanged.
C10_ReadUnpinRestoresPins ==
    \A k \in Keys :
        LET r == readPage(current, k[1], k[2])
            u == unPinPage(r, k[1], k[2], FALSE)
        IN r.err = "" =>
            /\ u.err = ""
            /\ u.desc[r.page].pinCnt = pinOf(hashTable, bufDescTable, k[1], k[2])
            /\ \A i \in Frames(numBufs) \ {r.page} :
                  u.desc[i].pinCnt = bufDescTable[i].pinCnt

\* readPage(F,p); unPinPage(F,p,false) has just run on the fresh pool: the
\* frame that was handed out for p is back at pin count 0
C10_Witness ==
    /\ coldHit.stage = "unpinned"
    /\ last = [op |-> "unPinPage", err |-> ""]
    /\ bufDescTable[coldHit.first].valid
    /\ bufDescTable[coldHit.first].pinCnt = 0

\* Where a claim below is about the calls that can be made in a state, it is
\* stated for the states in which a call can still be made (calls < MaxOps).

\* frames whose descriptor names the file, the test flushFile applies
framesOf(desc, file) == {i \in DOMAIN desc : desc[i].file = file}

\* C11: after a flushFile(file) that completes without error no valid frame
\* has file = file, the Page Index has no entry of that file (every frame
\* that held one of its pages, dirty or clean, was removed and cleared), and
\* every dirty page of the file was written to it.
C11_FlushClearsFile ==
    \A f \in Files :
        LET r == flushFile(current, f)
        IN r.err = "" =>
            /\ \A i \in Frames(numBufs) :
                  ~(r.desc[i].valid /\ r.desc[i].file = f)
            /\ \A k \in DOMAIN r.ht : k[1] # f
            /\ \A i \in framesOf(bufDescTable, f) :
                  cleared(r.desc[i]) /\ ~mapped(r.ht, i)
            /\ \A i \in framesOf(bufDescTable, f) :
                  bufDescTable[i].dirty => written(r, key(bufDescTable[i]))

\* C12: flushFile(file) raises PagePinned whenever some frame of the file has
\* pinCnt > 0. Frames are processed in ascending index and the call stops at
\* the first pinned one: that frame and every frame of the file above it are
\* unchanged, the frames of the file below it are flushed (written if dirty,
\* out of the Page Index, cleared); with a single pinned resident page nothing
\* is written and its descriptor is unchanged.
C12_FlushStopsAtPinned ==
    \A f \in Files :
        LET r == flushFile(current, f)
            pinned == {i \in framesOf(bufDescTable, f) : bufDescTable[i].pinCnt > 0}
            first == CHOOSE i \in pinned : \A j \in pinned : i <= j
        IN pinned # {} =>
            /\ r.err = "PagePinned"
            /\ \A i \in framesOf(bufDescTable, f) :
                  IF i >= first
                  THEN r.desc[i] = bufDescTable[i] /\ r.pool[i] = bufPool[i]
                  ELSE /\ cleared(r.desc[i]) /\ ~mapped(r.ht, i)
                       /\ bufDescTable[i].dirty => written(r, key(bufDescTable[i]))
            /\ \A j \in 1..Len(r.wrote) :
                  \E i \in framesOf(bufDescTable, f) :
                      i < first /\ r.wrote[j].image = key(bufDescTable[i])
            /\ framesOf(bufDescTable, f) = pinned /\ Cardinality(pinned) = 1 =>
                  r.wrote = <<>> /\ r.desc = bufDescTable

\* C13: flushFile(file), whether it succeeds or fails, leaves every frame
\* whose descriptor belongs to a different file untouched: its descriptor, its
\* buffer, the Page Index entries that lead to it and the pages of the other
\* files on disk are unchanged, and nothing is written to another file.
C13_FlushSparesOtherFiles ==
    calls < MaxOps =>
        \A f \in Files :
            LET r == flushFile(current, f)
            IN /\ \A i \in Frames(numBufs) \ framesOf(bufDescTable, f) :
                     /\ r.desc[i] = bufDescTable[i]
                     /\ r.pool[i] = bufPool[i]
                     /\ \A k \in Keys :
                           (present(hashTable, k[1], k[2]) /\ hashTable[k] = i)
                               <=> (present(r.ht, k[1], k[2]) /\ r.ht[k] = i)
               /\ \A k \in Keys :
                     k[1] # f => (present(hashTable, k[1], k[2])
                                     <=> present(r.ht, k[1], k[2]))
               /\ r.disk = disk
               /\ \A j \in 1..Len(r.wrote) : r.wrote[j].file = f

\* flushFile(F) has just emptied the frame that held a dirty page of F while
\* the other frame keeps its dirty, unpinned page of G
C13_Witness ==
    /\ last = [op |-> "flushFile", err |-> ""]
    /\ numBufs = 2
    /\ \E i, j \in Frames(numBufs) :
          /\ bufDescTable[i].valid /\ bufDescTable[i].file = "G"
          /\ bufDescTable[i].dirty /\ bufDescTable[i].pinCnt = 0
          /\ hashTable = (<<"G", 1>> :> i)
          /\ cleared(bufDescTable[j]) /\ bufPool[j] \in {<<"F", 1>>, <<"F", 2>>}

\* C14: disposePage(file, p) makes exactly one deletePage(p) call whether or
\* not p is resident, writes nothing and leaves diskwrites alone; if p is
\* resident its Page Index entry is removed and the frame holding p is cleared
\* (even when dirty); no other frame and no other index entry is changed.
C14_DisposeDropsOnlyThePage ==
    \A k \in Keys :
        LET r == disposePage(current, k[1], k[2])
            holding == {i \in Frames(numBufs) :
                           bufDescTable[i].valid /\ key(bufDescTable[i]) = k}
        IN /\ r.deleted = <<k>>
           /\ r.wrote = <<>>
           /\ r.stats = bufStats
           /\ ~present(r.ht, k[1], k[2])
           /\ \A i \in holding : cleared(r.desc[i])
           /\ \A i \in Frames(numBufs) \ holding : r.desc[i] = bufDescTable[i]
           /\ \A j \in Keys \ {k} :
                 /\ present(r.ht, j[1], j[2]) <=> present(hashTable, j[1], j[2])
                 /\ present(hashTable, j[1], j[2]) => r.ht[j] = hashTable[j]

\* the valid frames with the page each of them caches
validPages(desc) ==
    {<<i, key(desc[i])>> : i \in {j \in DOMAIN desc : desc[j].valid}}

\* C15 (as stated): wherever allocPage(file) succeeds, allocPage(file) -> p;
\* unPinPage(file, p, d); disposePage(file, p) leaves the same set of valid
\* frames, caching the same pages, as before the allocPage call.
C15_AllocDisposeRestoresPool ==
    calls < MaxOps =>
        \A k \in {k \in Keys : ~pageExists(disk, k[1], k[2])} : \A d \in BOOLEAN :
            LET a == allocPage(current, k[1], k[2])
                u == unPinPage(a, k[1], k[2], d)
                x == disposePage(u, k[1], k[2])
            IN a.err = "" =>
                /\ u.err = "" /\ x.err = ""
                /\ validPages(x.desc) = validPages(bufDescTable)

\* C15 (amended): the sequence leaves the valid frames, and the pages they
\* cache, as before the allocPage call except for the frame allocBuf handed
\* out for p, which is invalid afterwards: the page evicted from it, if there
\* was one, is no longer cached.
C15_AllocDisposeFreesItsFrame ==
    calls < MaxOps =>
        \A k \in {k \in Keys : ~pageExists(disk, k[1], k[2])} : \A d \in BOOLEAN :
            LET a == allocPage(current, k[1], k[2])
                u == unPinPage(a, k[1], k[2], d)
                x == disposePage(u, k[1], k[2])
            IN a.err = "" =>
                /\ u.err = "" /\ x.err = ""
                /\ validPages(x.desc) =
                      {p \in validPages(bufDescTable) : p[1] # a.page}
                /\ ~x.desc[a.page].valid

\* allocPage(file) -> p; unPinPage(file, p, d); disposePage(file, p) has just
\* run: the frame handed out for p is invalid again and p is gone from disk
C15_Witness ==
    /\ allocCycle.stage = "disposed"
    /\ last = [op |-> "disposePage", err |-> ""]
    /\ ~bufDescTable[allocCycle.frame].valid
    /\ bufPool[allocCycle.frame] = <<allocCycle.file, allocCycle.pageNo>>
    /\ ~pageExists(disk, allocCycle.file, allocCycle.pageNo)

\* C16: clock second chance with N = 2 from the empty pool. After
\* readPage(F,1); unPinPage(F,1,false); readPage(F,2); unPinPage(F,2,false);
\* readPage(F,1) pages 1 and 2 are resident in distinct frames and the last
\* call was a hit on page 1's frame (no third disk read, pinCnt 1, refbit
\* set); after a following readPage(F,3) page 2 has lost its frame to page 3
\* and page 1 is still in its frame.
C16_ClockSecondChance ==
    numBufs = 2 =>
        /\ clockRun = 5 =>
              /\ \E i, j \in Frames(numBufs) :
                    /\ i # j
                    /\ holds(bufDescTable, bufPool, i, <<"F", 1>>)
                    /\ holds(bufDescTable, bufPool, j, <<"F", 2>>)
                    /\ bufDescTable[i].pinCnt = 1
                    /\ bufDescTable[i].refbit
              /\ bufStats.diskreads = 2
        /\ clockRun = 6 =>
              /\ \E i \in Frames(numBufs) :
                    holds(bufDescTable, bufPool, i, <<"F", 1>>)
              /\ \E j \in Frames(numBufs) :
                    holds(bufDescTable, bufPool, j, <<"F", 3>>)
              /\ ~\E j \in Frames(numBufs) :
                    holds(bufDescTable, bufPool, j, <<"F", 2>>)

\* C17: HashNotFound and HashAlreadyPresent never escape a public operation:
\* in every reachable state each of readPage, allocPage, unPinPage, flushFile
\* and disposePage succeeds or fails with BufferExceeded, PageNotPinned,
\* PagePinned, BadBuffer or a Page File error, so every index removal of a
\* dirty eviction or a flush finds its key and every insert after a miss or
\* an allocation finds it absent.
C17_NoHashErrorEscapes ==
    calls < MaxOps =>
        LET escapes(r) ==
                \/ r.err \in {"HashNotFound", "HashAlreadyPresent"}
                \/ r.err \notin {"", "BufferExceeded", "PageNotPinned",
                                  "PagePinned", "BadBuffer", "InvalidPage"}
        IN /\ \A k \in Keys :
                 /\ ~escapes(readPage(current, k[1], k[2]))
                 /\ ~escapes(unPinPage(current, k[1], k[2], TRUE))
                 /\ ~escapes(unPinPage(current, k[1], k[2], FALSE))
                 /\ ~escapes(disposePage(current, k[1], k[2]))
                 /\ ~pageExists(disk, k[1], k[2]) =>
                        ~escapes(allocPage(current, k[1], k[2]))
           /\ \A f \in Files : ~escapes(flushFile(current, f))

\* the third call since construction was a miss that evicted a dirty page
\* (one disk write) and completed: the index removal found the victim's key
\* and the insert found the new key absent
C17_Witness ==
    /\ calls = 3
    /\ last.op \in {"readPage", "allocPage"}
    /\ last.err = ""
    /\ bufStats.diskwrites = 1
    /\ \E i \in Frames(numBufs) :
          bufDescTable[i].valid /\ hashTable[key(bufDescTable[i])] = i

\* C18: every allocBuf call ends after at most 2N counted steps (a visit that
\* clears a reference bit or skips a pinned frame; each moves the hand on by
\* one): it returns a frame with fewer than 2N steps counted, or it has
\* counted exactly 2N steps and fails with BufferExceeded.
C18_SweepBounded ==
    calls < MaxOps =>
        \A m \in allocCalls :
            LET a == allocBuf(m)
            IN /\ a.count \in 0..(2 * numBufs)
               /\ a.err = "BufferExceeded" <=> a.count = 2 * numBufs
               /\ a.err = "" <=> (a.count < 2 * numBufs /\ a.frame \in Frames(numBufs))
               /\ a.hand = (clockHand + a.count) % numBufs

\* a sweep has just given up after two full passes over a pool of several
\* pinned frames, one of which had its reference bit set by a hit
C18_Witness ==
    /\ last.err = "BufferExceeded"
    /\ numBufs > 1
    /\ \E i \in Frames(numBufs) : bufDescTable[i].pinCnt > 1
    /\ \A i \in Frames(numBufs) : bufDescTable[i].pinCnt > 0 /\ ~bufDescTable[i].refbit

\* second-chance reference: the frame at offset j of the circular scan that
\* starts at hand
at(n, hand, j) == (hand + j) % n

\* offsets at which the first pass can stop: the frame is invalid, or it is
\* unreferenced and unpinned
firstPass(desc, n, hand) ==
    {j \in Frames(n) : \/ ~desc[at(n, hand, j)].valid
                       \/ /\ ~desc[at(n, hand, j)].refbit
                          /\ desc[at(n, hand, j)].pinCnt = 0}

\* offsets at which the second pass can stop, all reference bits being clear
\* by then: the frame is unpinned
secondPass(desc, n, hand) == {j \in Frames(n) : desc[at(n, hand, j)].pinCnt = 0}

least(S) == CHOOSE j \in S : \A k \in S : j <= k

\* C19: allocBuf selects as the second-chance reference does. Scanning
\* circularly from clockHand it returns the first frame that is invalid or has
\* refbit = false and pinCnt = 0 when visited; of the other frames, those
\* visited before it end with refbit = false and are otherwise unchanged
\* (a pinned frame with refbit = false is skipped unchanged), those not
\* visited are unchanged; on return clockHand is the returned frame, within
\* 0..N-1; the call fails exactly when the reference finds no frame.
C19_SecondChanceVictim ==
    calls < MaxOps =>
        \A m \in allocCalls :
            LET a == allocBuf(m)
                n == numBufs
                one == firstPass(bufDescTable, n, clockHand)
                two == secondPass(bufDescTable, n, clockHand)
                off == IF one # {} THEN least(one) ELSE least(two)
                visited(i) == one = {} \/ \E j \in 0..(off - 1) : at(n, clockHand, j) = i
            IN IF one = {} /\ two = {}
               THEN a.err = "BufferExceeded"
               ELSE /\ a.err = ""
                    /\ a.frame = at(n, clockHand, off)
                    /\ a.hand = a.frame
                    /\ a.hand \in Frames(n)
                    /\ \A i \in Frames(n) \ {a.frame} :
                          a.desc[i] = IF visited(i)
                                      THEN [bufDescTable[i] EXCEPT !.refbit = FALSE]
                                      ELSE bufDescTable[i]

\* a miss on a pool of two frames has just been served from frame 0: the
\* sweep started at frame 1, cleared the reference bit a hit had set on it and
\* moved on to the free frame
C19_Witness ==
    /\ last = [op |-> "readPage", err |-> ""]
    /\ numBufs = 2
    /\ bufStats = [accesses |-> 1, diskreads |-> 2, diskwrites |-> 0]
    /\ clockHand = 0
    /\ bufDescTable[0].valid /\ bufDescTable[0].pinCnt = 1
    /\ bufDescTable[1].valid /\ bufDescTable[1].pinCnt = 0
    /\ ~bufDescTable[1].refbit

C21_PinnedFrameKeepsPage ==
    \A i \in Frames(numBufs) :
        LET d == bufDescTable[i]
        IN (d.pinCnt > 0 /\ holds(bufDescTable, bufPool, i, key(d))) =>
              \A x \in {y \in opResults : y.op # "unPinPage"} :
                  holds(x.r.desc, x.r.pool, i, key(d))

\* C22: in every reachable state a successful readPage(file, p), hit or miss,
\* returns the buffer of a frame that holds page p of that file: the frame's
\* descriptor is valid with (file, pageNo) = (file, p) and its buffer has the
\* image loaded or allocated for p.
C22_ReadReturnsThePage ==
    \A k \in Keys :
        LET r == readPage(current, k[1], k[2])
        IN r.err = "" => holds(r.desc, r.pool, r.page, k)

\* C23: allocPage allocates the page in the file before it asks allocBuf for
\* a frame: when allocPage fails with BufferExceeded the file contains the
\* new page, no frame and no Page Index entry refers to it, and accesses has
\* not been incremented.
C23_FailedAllocLeavesPage ==
    calls < MaxOps =>
        \A k \in {k \in Keys : ~pageExists(disk, k[1], k[2])} :
            LET r == allocPage(current, k[1], k[2])
            IN r.err = "BufferExceeded" =>
                /\ pageExists(r.disk, k[1], k[2])
                /\ ~present(r.ht, k[1], k[2])
                /\ \A i \in Frames(numBufs) :
                      ~(r.desc[i].valid /\ key(r.desc[i]) = k)
                /\ r.page = -1
                /\ r.stats.accesses = bufStats.accesses

\* an allocPage has just failed with BufferExceeded on a pool whose frames
\* are all pinned: every page of every file exists again, the one allocated
\* by the failed call among them, and some page is in no frame and not in the
\* Page Index
C23_Witness ==
    /\ last = [op |-> "allocPage", err |-> "BufferExceeded"]
    /\ allPinned(bufDescTable)
    /\ disk = [f \in Files |-> PageIds(f)]
    /\ \E k \in Keys :
          /\ ~present(hashTable, k[1], k[2])
          /\ \A i \in Frames(numBufs) : key(bufDescTable[i]) # k

====
